---- MODULE Spec2Model ----
(***************************************************************************)
(* Model of the walkers coordinate core: the validated Zoom scalar         *)
(* (src/walkers/src/zoom.rs) and the Web Mercator projection               *)
(* (src/walkers/src/mercator.rs).                                          *)
(*                                                                         *)
(* Three specifications share the module:                                  *)
(*   ZoomSpec  - one Zoom object under try_from / zoom_in / zoom_out /     *)
(*               zoom_by / round;                                          *)
(*   ProjSpec  - Position::project, Position::tile_id, TileId::project and *)
(*               screen_to_position applied to drawn inputs;               *)
(*   TileSpec  - TileId::east / west / north / south and TileId::project   *)
(*               applied to TileId values built field by field.            *)
(***************************************************************************)
EXTENDS Integers, Naturals, Sequences, FiniteSets, TLC

VARIABLES
    self_0,    \* ZoomSpec: the f32 held by the Zoom object (self.0)
    last,      \* ZoomSpec: the last call on the Zoom object and its outcome
    build,     \* "debug" (overflow checks on: overflow panics) or "release" (wraps)
    pos,       \* ProjSpec: the Position argument
    zm,        \* ProjSpec: the raw u8 zoom argument
    ts,        \* ProjSpec / TileSpec: the u32 tile_size argument
    out,       \* ProjSpec: the last projection call and its outcome
    tile,      \* TileSpec: the TileId the methods are called on
    nb         \* TileSpec: the last TileId method call and its outcome

vars == <<self_0, last, build, pos, zm, ts, out, tile, nb>>

(***************************************************************************)
(* Bounds of the model.                                                    *)
(***************************************************************************)
\* Significand width of the modelled binary float (f32 has 24).
MantBits == 5
\* The smallest float step is 2^-FracBits.
FracBits == 1
\* Arguments of try_from range over the floats of magnitude <= MaxMag.
MaxMag == 20
\* Arguments of zoom_by range over the floats of magnitude <= MaxDelta.
MaxDelta == 2
\* Raw zoom arguments of the projection range over 0..MaxZoomArg (and 255).
MaxZoomArg == 33

(***************************************************************************)
(* Program constants.                                                      *)
(***************************************************************************)
MAX_ZOOM == 19
DEFAULT_ZOOM == 16
TILE_SIZE == 256
U32_BITS == 32
U8_BITS == 8

(***************************************************************************)
(* f32, in miniature: a float is NaN, an infinity or a signed magnitude m  *)
(* counted in units of 2^-FracBits whose significand fits MantBits bits.   *)
(* Sums are rounded to nearest, ties to even, as IEEE 754 does.            *)
(***************************************************************************)
RECURSIVE BitLen(_)
BitLen(n) == IF n = 0 THEN 0 ELSE 1 + BitLen(n \div 2)

Unit == 2 ^ FracBits

Representable(m) ==
    \/ m < 2 ^ MantBits
    \/ m % (2 ^ (BitLen(m) - MantBits)) = 0

Fin(neg, m) == [c |-> "fin", neg |-> neg, m |-> m]
NaN == [c |-> "nan", neg |-> FALSE, m |-> 0]
Inf(neg) == [c |-> "inf", neg |-> neg, m |-> 0]
FromInt(i) == Fin(i < 0, (IF i < 0 THEN -i ELSE i) * Unit)

\* The signed value of a finite float, in units.
FVal(f) == IF f.neg THEN -f.m ELSE f.m

\* Round a non-negative count of units to MantBits significant bits.
RoundRep(n) ==
    IF n < 2 ^ MantBits THEN n
    ELSE LET s == 2 ^ (BitLen(n) - MantBits)
             q == n \div s
             r == n % s
             up == (2 * r > s) \/ (2 * r = s /\ q % 2 = 1)
         IN  (IF up THEN q + 1 ELSE q) * s

\* a + b on f32.
FAdd(a, b) ==
    IF a.c = "nan" \/ b.c = "nan" THEN NaN
    ELSE IF a.c = "inf" /\ b.c = "inf" THEN (IF a.neg = b.neg THEN a ELSE NaN)
    ELSE IF a.c = "inf" THEN a
    ELSE IF b.c = "inf" THEN b
    ELSE LET s == FVal(a) + FVal(b)
         IN  IF s = 0 THEN Fin(a.neg /\ b.neg, 0)
             ELSE IF s < 0 THEN Fin(TRUE, RoundRep(-s))
             ELSE Fin(FALSE, RoundRep(s))

FNeg(a) == IF a.c = "nan" THEN a ELSE [a EXCEPT !.neg = ~a.neg]

\* a - b on f32.
FSub(a, b) == FAdd(a, FNeg(b))

\* a <= b on f32: false when either side is NaN; -0 equals +0.
FLe(a, b) ==
    IF a.c = "nan" \/ b.c = "nan" THEN FALSE
    ELSE IF a.c = "inf" THEN (a.neg \/ (b.c = "inf" /\ ~b.neg))
    ELSE IF b.c = "inf" THEN ~b.neg
    ELSE FVal(a) <= FVal(b)

\* The floats of magnitude <= max, with both zeros, both infinities and NaN.
FloatsTo(max) ==
    {Fin(neg, m) : neg \in BOOLEAN, m \in {k \in 0..(max * Unit) : Representable(k)}}
        \cup {NaN, Inf(FALSE), Inf(TRUE)}

\* The f32 arguments Zoom::try_from is called with.
Floats == FloatsTo(MaxMag)

\* The f32 arguments zoom_by is called with.
Deltas == FloatsTo(MaxDelta)

(***************************************************************************)
(* zoom.rs                                                                 *)
(***************************************************************************)
\* The range test of try_from, with the upper bound left out.
try_from_no_upper(value) ==
    IF ~FLe(FromInt(0), value)
    THEN [ok |-> FALSE, val |-> value]
    ELSE [ok |-> TRUE, val |-> value]

\* The range test of try_from, with the upper bound exclusive.
try_from_exclusive(value) ==
    IF ~(FLe(FromInt(0), value) /\ FLe(value, FromInt(MAX_ZOOM)) /\ value # FromInt(MAX_ZOOM))
    THEN [ok |-> FALSE, val |-> value]
    ELSE [ok |-> TRUE, val |-> value]

\* Zoom::try_from: Err(InvalidZoom) unless (0. ..=19.).contains(&value).
try_from(value) ==
    IF ~(FLe(FromInt(0), value) /\ FLe(value, FromInt(MAX_ZOOM)))
    THEN [ok |-> FALSE, val |-> value]
    ELSE [ok |-> TRUE, val |-> value]

\* Zoom::default.
default == FromInt(DEFAULT_ZOOM)

\* f32::round (half away from zero) followed by the saturating cast `as u8`.
round(f) ==
    IF f.c = "nan" THEN 0
    ELSE IF f.c = "inf" THEN (IF f.neg THEN 0 ELSE 2 ^ U8_BITS - 1)
    ELSE LET r == (2 * f.m + Unit) \div (2 * Unit)
         IN  IF f.neg THEN 0
             ELSE IF r > 2 ^ U8_BITS - 1 THEN 2 ^ U8_BITS - 1
             ELSE r

Call(op, arg, res, prev) == [op |-> op, arg |-> arg, ok |-> res.ok, sum |-> res.val, prev |-> prev]

ZoomInit ==
    /\ self_0 = default
    /\ last = Call("default", FromInt(0), [ok |-> TRUE, val |-> default], default)

\* Zoom::try_from(value), replacing the object on success.
Construct(value) ==
    LET r == try_from(value)
    IN  /\ self_0' = IF r.ok THEN r.val ELSE self_0
        /\ last' = Call("try_from", value, r, self_0)

\* zoom_by clamping to the nearest bound instead of leaving the value alone.
zoom_by_clamp(value) ==
    LET s == FAdd(self_0, value)
        r == try_from(s)
    IN  /\ self_0' = IF r.ok THEN r.val
                   ELSE IF FLe(s, FromInt(0)) THEN FromInt(0)
                   ELSE FromInt(MAX_ZOOM)
        /\ last' = Call("zoom_by", value, r, self_0)

\* zoom_in that stores the sum before the `?` returns the error.
zoom_in_store ==
    LET r == try_from(FAdd(self_0, FromInt(1)))
    IN  /\ self_0' = r.val
        /\ last' = Call("zoom_in", FromInt(1), r, self_0)

\* Zoom::zoom_in: *self = Self::try_from(self.0 + 1.)?
zoom_in ==
    LET r == try_from(FAdd(self_0, FromInt(1)))
    IN  /\ self_0' = IF r.ok THEN r.val ELSE self_0
        /\ last' = Call("zoom_in", FromInt(1), r, self_0)

\* Zoom::zoom_out: *self = Self::try_from(self.0 - 1.)?
zoom_out ==
    LET r == try_from(FSub(self_0, FromInt(1)))
    IN  /\ self_0' = IF r.ok THEN r.val ELSE self_0
        /\ last' = Call("zoom_out", FromInt(1), r, self_0)

\* Zoom::zoom_by: if let Ok(new_self) = Self::try_from(self.0 + value)
zoom_by(value) ==
    LET r == try_from(FAdd(self_0, value))
    IN  /\ self_0' = IF r.ok THEN r.val ELSE self_0
        /\ last' = Call("zoom_by", value, r, self_0)

ZoomIdle == UNCHANGED <<build, pos, zm, ts, out, tile, nb>>

ZoomNext ==
    \/ (\E value \in Floats : Construct(value)) /\ ZoomIdle
    \/ zoom_in /\ ZoomIdle
    \/ zoom_out /\ ZoomIdle
    \/ (\E value \in Deltas : zoom_by(value)) /\ ZoomIdle

(***************************************************************************)
(* Wide integers.  u32 values and the integer-valued f64 values of the     *)
(* projection exceed the 32-bit integers of TLC, so an integer v is held as    *)
(* two limbs, v = hi * 2^16 + lo with 0 <= lo < 2^16 (hi carries the sign).*)
(***************************************************************************)
Limb == 2 ^ 16

W(i) == [hi |-> i \div Limb, lo |-> i % Limb]

WVal(w) == w.hi * Limb + w.lo

WLt(a, b) == a.hi < b.hi \/ (a.hi = b.hi /\ a.lo < b.lo)

WLe(a, b) == a = b \/ WLt(a, b)

WAdd(a, b) ==
    LET l == a.lo + b.lo
    IN  [hi |-> a.hi + b.hi + l \div Limb, lo |-> l % Limb]

\* w * k for a small integer k.
WMul(w, k) ==
    LET l == w.lo * k
    IN  [hi |-> w.hi * k + l \div Limb, lo |-> l % Limb]

\* 2^e as a wide integer, e < 47.
WPow2(e) == IF e < 16 THEN [hi |-> 0, lo |-> 2 ^ e] ELSE [hi |-> 2 ^ (e - 16), lo |-> 0]

\* floor(w / 2^e).
WShr(w, e) ==
    IF e >= 16 THEN W(w.hi \div 2 ^ (e - 16))
    ELSE LET d == 2 ^ e
         IN  [hi |-> w.hi \div d, lo |-> (w.hi % d) * (Limb \div d) + w.lo \div d]

\* The exponent of a wide power of two.
WLog2(w) == IF w.hi > 0 THEN 15 + BitLen(w.hi) ELSE BitLen(w.lo) - 1

U32_MAX == [hi |-> Limb - 1, lo |-> Limb - 1]

IsU32(w) == 0 <= w.hi /\ w.hi < 2 ^ (U32_BITS - 16)

\* The low 32 bits of a non-negative wide integer.
WrapU32(w) == [hi |-> w.hi % 2 ^ (U32_BITS - 16), lo |-> w.lo]

(***************************************************************************)
(* Rust integer arithmetic.  With overflow checks (the debug profile) an   *)
(* overflowing +, -, * or pow panics; without them (the release profile)   *)
(* it wraps.  A result records both, so that a silent wrap is visible.     *)
(***************************************************************************)
Builds == {"debug", "release"}

Checked(raw, overflowed, wrapped) ==
    [panic |-> overflowed /\ build = "debug",
     ovf   |-> overflowed,
     val   |-> IF overflowed THEN wrapped ELSE raw]

\* 2u32.pow(e)
pow2_u32(e) ==
    IF e < U32_BITS THEN Checked(WPow2(e), FALSE, W(0)) ELSE Checked(W(0), TRUE, W(0))

\* a * k on u32
mul_u32(a, k) ==
    LET p == WMul(a, k) IN Checked(p, ~IsU32(p), WrapU32(p))

\* a + k on u32
add_u32(a, k) ==
    LET s == WAdd(a, W(k)) IN Checked(s, ~IsU32(s), WrapU32(s))

\* a - k on u8
sub_u8(a, k) == Checked(a - k, k > a, (a - k) % (2 ^ U8_BITS))

\* u32::checked_sub(a, 1)
checked_sub1(a) ==
    IF a = W(0) THEN [some |-> FALSE, val |-> a] ELSE [some |-> TRUE, val |-> WAdd(a, W(-1))]

(***************************************************************************)
(* f64 values of the projection.  Normalized Mercator coordinates are held *)
(* as a count n of eighths (the coordinate is n/8) and pixel coordinates   *)
(* as a wide count of eighths of a pixel; every such value has few         *)
(* significant bits, so the f64 products, quotients and floors on them are *)
(* exact.  Longitudes are whole degrees on the 45-degree grid; latitudes   *)
(* are the microdegree values whose Mercator ordinate asinh(tan(lat)) is a *)
(* multiple of pi/4, so that pi divides out exactly.                       *)
(***************************************************************************)
\* atan(sinh(j * pi / 4)) in microdegrees, for j = 0..5.
Gudermannian == <<0, 40979898, 66513260, 79171335, 85051129, 87742509>>

\* y.sinh().atan().to_degrees() for y = j * pi / 4.
atan_sinh(j) == IF j >= 0 THEN Gudermannian[j + 1] ELSE -Gudermannian[1 - j]

\* lat.to_radians().tan().asinh(), in units of pi / 4.
asinh_tan(lat) == CHOOSE j \in -5..5 : atan_sinh(j) = lat

LonDegs == {-225, -180, -45, 0, 90, 180, 225}
LatSteps == {-5, -4, -2, 0, 1, 4, 5}

Positions == {[lon |-> lon, lat |-> atan_sinh(j)] : lon \in LonDegs, j \in LatSteps}

\* mercator_normalized with the vertical flip left out.
mercator_normalized_noflip(position) ==
    [x |-> (180 + position.lon) \div 45,
     y |-> 4 + asinh_tan(position.lat)]

\* mercator_normalized: ((1 + lon_rad / PI) / 2, (1 - y / PI) / 2), in eighths.
mercator_normalized(position) ==
    [x |-> (180 + position.lon) \div 45,
     y |-> 4 - asinh_tan(position.lat)]

\* floor() of an f64 held in eighths, then the saturating cast `as u32`.
floor_as_u32(q) ==
    LET f == WShr(q, 3)
    IN  IF f.hi < 0 THEN W(0)
        ELSE IF ~IsU32(f) THEN U32_MAX
        ELSE f

\* 2u32.pow(zoom as u32) * TILE_SIZE
number_of_pixels(zoom) ==
    LET p == pow2_u32(zoom)
        m == mul_u32(p.val, TILE_SIZE)
    IN  [panic |-> p.panic \/ m.panic, ovf |-> p.ovf \/ m.ovf, val |-> m.val]

\* The tile-size correction left out.
tile_size_correction_none(tile_size) == 0

\* ((tile_size as f64) / (TILE_SIZE as f64)).log2() as u8: the cast
\* truncates, and saturates a negative or infinite logarithm at 0.
tile_size_correction(tile_size) ==
    IF tile_size < TILE_SIZE THEN 0
    ELSE BitLen(tile_size \div TILE_SIZE) - 1

Out(op, panic, ovf, x, y, z) ==
    [op |-> op, panic |-> panic, ovf |-> ovf, x |-> x, y |-> y, zoom |-> z]

NoOut == Out("none", FALSE, FALSE, W(0), W(0), 0)

\* Position::project
project(position, zoom) ==
    LET n == mercator_normalized(position)
        np == number_of_pixels(zoom)
    IN  IF np.panic THEN Out("project", TRUE, np.ovf, W(0), W(0), zoom)
        ELSE Out("project", FALSE, np.ovf, WMul(np.val, n.x), WMul(np.val, n.y), zoom)

\* Position::tile_id
tile_id(position, zoom, tile_size) ==
    LET n == mercator_normalized(position)
        z == sub_u8(zoom, tile_size_correction(tile_size))
        nt == pow2_u32(z.val)
    IN  IF z.panic \/ nt.panic THEN Out("tile_id", TRUE, TRUE, W(0), W(0), 0)
        ELSE Out("tile_id", FALSE, z.ovf \/ nt.ovf,
                 floor_as_u32(WMul(nt.val, n.x)),
                 floor_as_u32(WMul(nt.val, n.y)),
                 z.val)

\* TileId::project: ((self.x * tile_size) as f64, (self.y * tile_size) as f64)
tile_project(t, tile_size) ==
    LET x == mul_u32(t.x, tile_size)
        y == mul_u32(t.y, tile_size)
    IN  IF x.panic \/ y.panic THEN Out("tile_project", TRUE, TRUE, W(0), W(0), t.zoom)
        ELSE Out("tile_project", FALSE, x.ovf \/ y.ovf, WMul(x.val, 8), WMul(y.val, 8), t.zoom)

Deg(v) == [k |-> "deg", v |-> v]
Special(k) == [k |-> k, v |-> 0]

\* screen_to_position
screen_to_position(pixels, zoom) ==
    LET np == number_of_pixels(zoom)
    IN  IF np.panic THEN Out("screen_to_position", TRUE, np.ovf, Special("none"), Special("none"), zoom)
        ELSE IF np.val = W(0)
        THEN \* division by 0.0: NaN for 0/0, an infinity otherwise
             Out("screen_to_position", FALSE, np.ovf,
                 IF pixels.x = W(0) THEN Special("nan")
                 ELSE IF pixels.x.hi < 0 THEN Special("-inf") ELSE Special("+inf"),
                 IF pixels.y = W(0) THEN Special("nan")
                 ELSE IF pixels.y.hi < 0 THEN Deg(90000000) ELSE Deg(-90000000),
                 zoom)
        ELSE LET e == WLog2(np.val)
                 lon == WVal(WShr(pixels.x, e))
                 lat == WVal(WShr(pixels.y, e))
             IN  Out("screen_to_position", FALSE, np.ovf,
                     Deg((lon - 4) * 45), Deg(atan_sinh(4 - lat)), zoom)

(***************************************************************************)
(* TileId neighbours.                                                      *)
(***************************************************************************)
Neighbour(op, panic, ovf, some, x, y, z) ==
    [op |-> op, panic |-> panic, ovf |-> ovf, some |-> some, x |-> x, y |-> y, zoom |-> z]

NoNeighbour == Neighbour("none", FALSE, FALSE, FALSE, W(0), W(0), 0)

\* TileId::east
east(t) ==
    LET x == add_u32(t.x, 1)
    IN  Neighbour("east", x.panic, x.ovf, ~x.panic, x.val, t.y, t.zoom)

\* TileId::west
west(t) ==
    LET x == checked_sub1(t.x)
    IN  Neighbour("west", FALSE, FALSE, x.some, x.val, t.y, t.zoom)

\* TileId::north
north(t) ==
    LET y == checked_sub1(t.y)
    IN  Neighbour("north", FALSE, FALSE, y.some, t.x, y.val, t.zoom)

\* TileId::south
south(t) ==
    LET y == add_u32(t.y, 1)
    IN  Neighbour("south", y.panic, y.ovf, ~y.panic, t.x, y.val, t.zoom)

(***************************************************************************)
(* The arguments the projection is called with.                            *)
(***************************************************************************)
ZoomArgs == 0..MaxZoomArg \cup {2 ^ U8_BITS - 1}

TileSizes == {128, 256, 512, 1024}

\* u32 field values a TileId is built with, the extremes included.
U32Samples == {W(0), W(1), W(2), W(2 ^ 19), WPow2(24), WAdd(U32_MAX, W(-1)), U32_MAX}

TileIds == {[x |-> x, y |-> y, zoom |-> z] : x \in U32Samples, y \in U32Samples, z \in {0, MAX_ZOOM}}

NoPosition == [lon |-> 0, lat |-> 0]
NoTile == [x |-> W(0), y |-> W(0), zoom |-> 0]
NoCall == Call("none", FromInt(0), [ok |-> TRUE, val |-> default], default)

(***************************************************************************)
(* ZoomSpec: one Zoom object.                                              *)
(***************************************************************************)
ZoomSpecInit ==
    /\ ZoomInit
    /\ build = "debug" /\ pos = NoPosition /\ zm = 0 /\ ts = TILE_SIZE
    /\ out = NoOut /\ tile = NoTile /\ nb = NoNeighbour

ZoomSpec == ZoomSpecInit /\ [][ZoomNext]_vars

(***************************************************************************)
(* ProjSpec: the projection functions on drawn arguments.                  *)
(***************************************************************************)
ProjInit ==
    /\ build \in Builds
    /\ pos \in Positions
    /\ zm \in ZoomArgs
    /\ ts \in TileSizes
    /\ out = NoOut
    /\ self_0 = default /\ last = NoCall /\ tile = NoTile /\ nb = NoNeighbour

ProjIdle == UNCHANGED <<self_0, last, build, pos, zm, ts, tile, nb>>

\* pos.project(zm)
CallProject == out' = project(pos, zm) /\ ProjIdle

\* pos.tile_id(zm, ts)
CallTileId == out' = tile_id(pos, zm, ts) /\ ProjIdle

\* pos.tile_id(zm, ts).project(ts)
CallTileProject ==
    /\ out.op = "tile_id" /\ ~out.panic
    /\ out' = tile_project(out, ts)
    /\ ProjIdle

\* screen_to_position(pos.project(zm), zm)
CallScreenToPosition ==
    /\ out.op = "project" /\ ~out.panic
    /\ out' = screen_to_position(out, zm)
    /\ ProjIdle

ProjNext ==
    \/ CallProject
    \/ CallTileId
    \/ CallTileProject
    \/ CallScreenToPosition

ProjSpec == ProjInit /\ [][ProjNext]_vars

(***************************************************************************)
(* TileSpec: the TileId methods on TileId values built field by field.     *)
(***************************************************************************)
TileInit ==
    /\ build \in Builds
    /\ tile \in TileIds
    /\ ts \in {TILE_SIZE, 2 * TILE_SIZE}
    /\ nb = NoNeighbour
    /\ self_0 = default /\ last = NoCall /\ pos = NoPosition /\ zm = 0 /\ out = NoOut

TileIdle == UNCHANGED <<self_0, last, build, pos, zm, ts, out, tile>>

CallEast == nb' = east(tile) /\ TileIdle
CallWest == nb' = west(tile) /\ TileIdle
CallNorth == nb' = north(tile) /\ TileIdle
CallSouth == nb' = south(tile) /\ TileIdle

\* tile.project(ts)
CallProjectTile ==
    LET r == tile_project(tile, ts)
    IN  /\ nb' = Neighbour("project", r.panic, r.ovf, ~r.panic, r.x, r.y, r.zoom)
        /\ TileIdle

TileNext ==
    \/ CallEast
    \/ CallWest
    \/ CallNorth
    \/ CallSouth
    \/ CallProjectTile

TileSpec == TileInit /\ [][TileNext]_vars

(***************************************************************************)
(* Properties of Zoom (checked under ZoomSpec).                            *)
(***************************************************************************)
\* v is a finite float with 0 <= v <= 19.
InZoomRange(v) == v.c = "fin" /\ 0 <= FVal(v) /\ FVal(v) <= MAX_ZOOM * Unit

\* C1: whatever sequence of try_from, zoom_in, zoom_out and zoom_by calls was
\* made, succeeding or failing, the stored value is within [0, 19] and round()
\* is in 0..=19.
C1_ZoomValid == InZoomRange(self_0) /\ round(self_0) \in 0..MAX_ZOOM

\* C1's case: zoom_by was refused at the upper bound.
C1_Witness ==
    /\ last.op = "zoom_by" /\ ~last.ok
    /\ last.prev = FromInt(MAX_ZOOM) /\ self_0 = FromInt(MAX_ZOOM)

\* C2: zoom_in succeeds exactly when v + 1 <= 19 and zoom_out exactly when
\* v - 1 >= 0 (in exact arithmetic); on success the value is the f32 sum, on
\* failure the value is still v.
C2_ZoomInOut ==
    /\ last.op = "zoom_in" =>
           /\ last.ok <=> FVal(last.prev) + Unit <= MAX_ZOOM * Unit
           /\ self_0 = IF last.ok THEN FAdd(last.prev, FromInt(1)) ELSE last.prev
    /\ last.op = "zoom_out" =>
           /\ last.ok <=> FVal(last.prev) - Unit >= 0
           /\ self_0 = IF last.ok THEN FSub(last.prev, FromInt(1)) ELSE last.prev

\* C2's case: a zoom_in refused at 19, the value still 19.
C2_Witness == last.op = "zoom_in" /\ ~last.ok /\ self_0 = FromInt(MAX_ZOOM)

\* C3: after zoom_by(delta) the value is v + delta when that sum is within
\* [0, 19], and otherwise exactly v: no clamping to a bound.
C3_ZoomBy ==
    last.op = "zoom_by" =>
        LET s == FAdd(last.prev, last.arg)
        IN  self_0 = IF InZoomRange(s) THEN s ELSE last.prev

\* C3's case: zoom_by(1) at 19 left the value at 19.
C3_Witness ==
    /\ last.op = "zoom_by" /\ last.arg = FromInt(1)
    /\ last.prev = FromInt(MAX_ZOOM) /\ self_0 = FromInt(MAX_ZOOM)

\* C4: try_from(v) is Ok holding v exactly for the v with 0 <= v <= 19, both
\* endpoints included, and Err otherwise (NaN and the infinities too);
\* default() is 16 and rounds to 16.
C4_Construct ==
    /\ last.op = "try_from" =>
           /\ last.ok <=> InZoomRange(last.arg)
           /\ last.ok => self_0 = last.arg
    /\ last.op = "default" => self_0 = FromInt(DEFAULT_ZOOM) /\ round(self_0) = DEFAULT_ZOOM

\* C4's case: try_from(19.) succeeded and holds 19.
C4_Witness ==
    /\ last.op = "try_from" /\ last.ok
    /\ last.arg = FromInt(MAX_ZOOM) /\ self_0 = FromInt(MAX_ZOOM) /\ round(self_0) = MAX_ZOOM

(***************************************************************************)
(* Properties of the projection (checked under ProjSpec).                  *)
(***************************************************************************)
\* The longitude is in [-180, 180] and the latitude within the Web Mercator
\* range: both normalized coordinates are in [0, 1].
InDomain(position) ==
    /\ -180 <= position.lon /\ position.lon <= 180
    /\ -Gudermannian[5] <= position.lat /\ position.lat <= Gudermannian[5]

\* w < 2^k, for a u32 w.
Below2Pow(w, k) == k >= U32_BITS \/ WLt(w, WPow2(k))

\* C5: tile_id(p, z, 512) is tile_id(p, z - 1, 256) in x, y and zoom field
\* (z - 1) for every p and z >= 1, and tile_id(p, z, 256) reports zoom z.
C5_TileSizeCorrection ==
    out.op = "tile_id" =>
        /\ (ts = 2 * TILE_SIZE /\ zm >= 1) =>
               /\ out = tile_id(pos, zm - 1, TILE_SIZE)
               /\ ~out.panic => out.zoom = zm - 1
        /\ (ts = TILE_SIZE /\ ~out.panic) => out.zoom = zm

\* C5's case: a 512px tile at zoom 19 came out as a zoom 18 tile.
C5_Witness ==
    /\ out.op = "tile_id" /\ ~out.panic /\ ts = 2 * TILE_SIZE
    /\ zm = MAX_ZOOM /\ out.zoom = MAX_ZOOM - 1 /\ out.x # W(0)

\* C6, for the zooms 0..=19 and the tile sizes 256 and 512 it names and the
\* positions in the domain: no projection call panics and no integer
\* computation in it overflows or underflows.
C6_Total ==
    (zm <= MAX_ZOOM /\ ts \in {TILE_SIZE, 2 * TILE_SIZE} /\ InDomain(pos) /\ out.op # "none") =>
        ~out.panic /\ ~out.ovf

\* C7: for a position in the domain, the TileId returned by tile_id has x and
\* y in [0, 2^k), k its zoom field.
C7_TileRange ==
    (out.op = "tile_id" /\ ~out.panic /\ InDomain(pos)) =>
        /\ IsU32(out.x) /\ Below2Pow(out.x, out.zoom)
        /\ IsU32(out.y) /\ Below2Pow(out.y, out.zoom)

\* C8, for the positions in the domain: project(p, z) lies in the 256px box
\* whose corner is tile_id(p, z, 256).project(256).
C8_PixelInTile ==
    (out.op = "tile_project" /\ ts = TILE_SIZE /\ InDomain(pos)) =>
        LET p == project(pos, zm)
            side == W(TILE_SIZE * 8)
        IN  /\ ~out.panic /\ ~p.panic
            /\ WLe(out.x, p.x) /\ WLt(p.x, WAdd(out.x, side))
            /\ WLe(out.y, p.y) /\ WLt(p.y, WAdd(out.y, side))

C9_Neighbours ==
    /\ nb.op = "west" =>
           /\ ~nb.panic /\ (nb.some <=> tile.x # W(0))
           /\ nb.some => nb.x = WAdd(tile.x, W(-1)) /\ nb.y = tile.y /\ nb.zoom = tile.zoom
    /\ nb.op = "north" =>
           /\ ~nb.panic /\ (nb.some <=> tile.y # W(0))
           /\ nb.some => nb.y = WAdd(tile.y, W(-1)) /\ nb.x = tile.x /\ nb.zoom = tile.zoom
    /\ nb.op = "east" =>
           /\ ~nb.panic /\ nb.some
           /\ nb.x = WAdd(tile.x, W(1)) /\ nb.y = tile.y /\ nb.zoom = tile.zoom
    /\ nb.op = "south" =>
           /\ ~nb.panic /\ nb.some
           /\ nb.y = WAdd(tile.y, W(1)) /\ nb.x = tile.x /\ nb.zoom = tile.zoom

====
